---- MODULE Spec2Model ----
(***************************************************************************)
(* go-discogs: the rate-limit tracker (RateLimit.Update / RateLimit.Get)   *)
(* and the retrying call coordinator (RateLimit.Call / RateLimit.call) of  *)
(* src/ratelimit.go, together with the request executor of src/discogs.go  *)
(* that feeds the tracker.                                                 *)
(*                                                                         *)
(* Durations are Go time.Duration values: signed 64-bit nanosecond         *)
(* counters, kept here as four 16-bit limbs (least significant first) so   *)
(* that doubling and adding wrap exactly as the Go arithmetic does.        *)
(* Wall-clock instants are whole seconds.  Errors are Unwrap chains.       *)
(***************************************************************************)
EXTENDS Integers, Sequences, FiniteSets, TLC

(* ------------------------------ bounds -------------------------------- *)

\* most work invocations one Call makes (the work script's length)
MaxCalls == 3

\* most work invocations of the one Call of the long-backoff specification
DeepCalls == 34

\* most work invocations of each of the concurrent Calls
ConcCalls == 2

\* most clock advances in a run
MaxTicks == 2

\* seconds the clock advances in one step
TickStep == 5

\* the wall clock at construction, in seconds after the zero time.Time
StartTime == 100

Callers == {"c1", "c2"}

\* the threads that call Update and Get directly
Threads == {"t1", "t2", "t3"}

(* ------------------------ 64-bit arithmetic --------------------------- *)

LimbBase == 2 ^ 16

\* a 64-bit value is four 16-bit limbs
Limbs64 == 64 \div 16

\* a width in which no sum or product of the model overflows
LimbsWide == 2 * Limbs64

RECURSIVE MulCarry(_, _, _, _)
MulCarry(a, k, i, carry) ==
    IF i > Len(a) THEN <<>>
    ELSE LET p == a[i] * k + carry
         IN  <<p % LimbBase>> \o MulCarry(a, k, i + 1, p \div LimbBase)

\* a * k in the width of a, the carry out of the top limb dropped (wraps)
MulWrap(a, k) == MulCarry(a, k, 1, 0)

RECURSIVE AddCarry(_, _, _, _)
AddCarry(a, b, i, carry) ==
    IF i > Len(a) THEN <<>>
    ELSE LET s == a[i] + b[i] + carry
         IN  <<s % LimbBase>> \o AddCarry(a, b, i + 1, s \div LimbBase)

\* a + b in the width of a (wraps)
AddWrap(a, b) == AddCarry(a, b, 1, 0)

\* the natural n < 2^31 in w limbs
FromNat(n, w) == [i \in 1..w |-> IF i = 1 THEN n % LimbBase
                                 ELSE IF i = 2 THEN n \div LimbBase ELSE 0]

\* the sign of a two's-complement value
IsNegative(a) == a[Len(a)] >= LimbBase \div 2

IsZero(a) == \A i \in 1..Len(a) : a[i] = 0

\* a two's-complement value sign-extended to w limbs
SignExtend(a, w) ==
    [i \in 1..w |-> IF i <= Len(a) THEN a[i]
                    ELSE IF IsNegative(a) THEN LimbBase - 1 ELSE 0]

(* --------------------------- time.Duration ---------------------------- *)

\* time.Millisecond, in nanoseconds, as the product 1000 * 1000
ThousandNs == 1000

MinimumDelayMs == 2500

\* const minimumRateLimitDelay = 2500 * time.Millisecond
minimumRateLimitDelay ==
    MulWrap(MulWrap(FromNat(MinimumDelayMs, Limbs64), ThousandNs), ThousandNs)

\* the freshness window of the snapshot, 10*time.Second, in seconds
FreshnessSeconds == 10

\* delay *= 2
Double(delay) == MulWrap(delay, 2)

(* ------------------------------- errors ------------------------------- *)

\* an error value is its Unwrap chain, outermost first; nil is the empty chain
Nil == <<>>

ErrTooManyRequests == <<"ErrTooManyRequests">>

ErrUnauthorized == <<"ErrUnauthorized">>

\* fmt.Errorf("unknown error: %s", response.Status)
ErrUnknownStatus == <<"unknown error">>

\* a transport or decoding failure, such as io.ErrUnexpectedEOF
ErrUnexpectedEOF == <<"io.ErrUnexpectedEOF">>

\* an error that wraps the sentinel, as fmt.Errorf("...: %w", ErrTooManyRequests)
ErrWrapped == <<"wrapper">> \o ErrTooManyRequests

\* another *Error with the sentinel's message: equal text, different pointer
ErrLookAlike == <<"Error{too many requests}">>

Canceled == <<"context.Canceled">>

DeadlineExceeded == <<"context.DeadlineExceeded">>

\* errors.Is(err, target): some error of err's Unwrap chain is target
RECURSIVE ErrorsIs(_, _)
ErrorsIs(err, target) ==
    /\ err # Nil
    /\ \/ err = target
       \/ ErrorsIs(Tail(err), target)

(* ----------------------- the RateLimit snapshot ----------------------- *)

\* the zero time.Time, which a RateLimit{} literal holds in updated
ZeroTime == 0

\* &RateLimit{}: every field zero
NewRateLimit == [total |-> 0, used |-> 0, remaining |-> 0, updated |-> ZeroTime]

\* the assignments of Update, one per line of its body
SetTotal(r, v) == [r EXCEPT !.total = v]

SetUsed(r, v) == [r EXCEPT !.used = v]

SetRemainingSwapped(r, v) == [r EXCEPT !.used = v]
SetRemaining(r, v) == [r EXCEPT !.remaining = v]

SetUpdated(r, t) == [r EXCEPT !.updated = t]

\* the body of Update run under the mutex, as one step
UpdateBody(r, total, used, remaining, t) ==
    SetUpdated(SetRemaining(SetUsed(SetTotal(r, total), used), remaining), t)

\* the tuple Get returns, read under the mutex
GetBody(r) == <<r.total, r.used, r.remaining, r.updated>>

\* triples an Update is handed directly: those of the tests, the last request of
\* a window, and one that is negative and inconsistent (the service is trusted,
\* so any integers)
UpdateArgs == {<<10, 6, 4>>, <<10, 10, 0>>, <<10, 9, 1>>, <<-1, 12, -1>>}

(* ------------------------- the request executor ----------------------- *)

\* the scripted work of TestRateLimit_Call: attempts[0], attempts[1], ...
ScriptResponses ==
    [kind : {"custom"}, err : {Nil, ErrTooManyRequests, ErrUnexpectedEOF}]

\* a response header: absent or malformed (<<"bad">>), or the decimal text of a
\* number (<<"num", n>>)
Header(n) == <<"num", n>>

BadHeader == <<"bad">>

HeaderValues == {BadHeader, Header(1), Header(4)}

\* strconv.Atoi with its error dropped: 0 on anything that is not a number
Atoi(h) == IF h[1] = "num" THEN h[2] ELSE 0

StatusOK == 200

StatusUnauthorized == 401

StatusTooManyRequests == 429

StatusInternalServerError == 500

StatusCodes ==
    {StatusOK, StatusUnauthorized, StatusTooManyRequests, StatusInternalServerError}

\* what one run of the work meets: a transport failure, an HTTP response seen by
\* a client with or without a RateLimit configured, or a caller-supplied function
\* that returns an error of its own
Responses ==
    [kind : {"doerr"}]
    \cup [kind : {"http"}, rl : BOOLEAN, status : StatusCodes,
          total : {Header(10)}, used : {Header(6)},
          remaining : HeaderValues, body : {"ok", "bad"}]
    \cup [kind : {"custom"},
          err : {Nil, ErrTooManyRequests, ErrWrapped, ErrLookAlike, ErrUnexpectedEOF}]

\* the arguments of the Update that request makes, <<>> when it makes none
RequestUpdateOkOnly(resp) ==
    IF resp.kind = "http" /\ resp.rl /\ resp.status = StatusOK
    THEN <<Atoi(resp.total), Atoi(resp.used), Atoi(resp.remaining)>>
    ELSE <<>>
RequestUpdate(resp) ==
    IF resp.kind = "http" /\ resp.rl
    THEN <<Atoi(resp.total), Atoi(resp.used), Atoi(resp.remaining)>>
    ELSE <<>>

\* the error request (or the caller's own function) returns
RequestError(resp) ==
    CASE resp.kind = "doerr" -> ErrUnexpectedEOF
      [] resp.kind = "custom" -> resp.err
      [] resp.kind = "http" /\ resp.status = StatusUnauthorized -> ErrUnauthorized
      [] resp.kind = "http" /\ resp.status = StatusTooManyRequests -> ErrTooManyRequests
      [] resp.kind = "http" /\ resp.status = StatusOK ->
            IF resp.body = "ok" THEN Nil ELSE ErrUnexpectedEOF
      [] OTHER -> ErrUnknownStatus

\* what a run of request meets: no response (client.Do fails), or a response;
\* the client has a RateLimit configured or has none
RequestResponses ==
    [kind : {"doerr"}, rl : BOOLEAN] \cup {r \in Responses : r.kind = "http"}

\* no run of request yet: attempt is the number of the attempt the run belongs
\* to, at the statement it is at, entry the snapshot as the run began, updates
\* the calls of Update it has made, err the error it will return
NoRequest ==
    [attempt |-> 0, at |-> "none", resp |-> [kind |-> "none"], entry |-> NewRateLimit,
     updates |-> 0, err |-> Nil]

(* ------------------------------- state -------------------------------- *)

VARIABLES
    rl,          \* the shared RateLimit: total, used, remaining, updated
    now,         \* the wall clock, in seconds
    pc,          \* where each Call is
    delay,       \* call's delay
    first,       \* call's first
    remaining,   \* call's remaining, as Get returned it
    when,        \* call's when, as Get returned it
    ctxErr,      \* ctx.Err() of the Call's context: Nil until it is done
    wake,        \* the case the select of sleep was woken with
    parked,      \* whether that select found no case ready and parked
    ret,         \* the error Call returned
    calls,       \* how often the Call has invoked f
    trace,       \* what the Call did, in order
    lastUpdate,  \* the arguments and time of the most recent Update
    mu,          \* RateLimit.mu: the thread that holds it, or "free"
    tpc,         \* where each thread that calls Update or Get directly is
    targs,       \* the arguments of the thread's Update
    tnow,        \* the time.Now() of the thread's Update
    tgot,        \* the named results of the thread's Get, as assigned so far
    lastDone,    \* the arguments and time of the Update that returned last
    rq           \* the run of request that is the f of each Call's latest attempt

vars == <<rl, now, pc, delay, first, remaining, when, ctxErr, wake, parked, ret,
          calls, trace, lastUpdate, mu, tpc, targs, tnow, tgot, lastDone, rq>>

reqVars == <<rq>>

threadVars == <<mu, tpc, targs, tnow, tgot, lastDone>>

callVars == <<pc, delay, first, remaining, when, ctxErr, wake, parked, ret, calls,
              trace>>

shared == <<rl, now, lastUpdate>>

Init ==
    /\ rl = NewRateLimit
    /\ now = StartTime
    /\ pc = [c \in Callers |-> "idle"]
    /\ delay = [c \in Callers |-> minimumRateLimitDelay]
    /\ first = [c \in Callers |-> TRUE]
    /\ remaining = [c \in Callers |-> 0]
    /\ when = [c \in Callers |-> ZeroTime]
    /\ ctxErr = [c \in Callers |-> Nil]
    /\ wake = [c \in Callers |-> "none"]
    /\ parked = [c \in Callers |-> FALSE]
    /\ ret = [c \in Callers |-> Nil]
    /\ calls = [c \in Callers |-> 0]
    /\ trace = [c \in Callers |-> <<>>]
    /\ lastUpdate = <<>>
    /\ mu = "free"
    /\ tpc = [t \in Threads |-> "idle"]
    /\ targs = [t \in Threads |-> <<0, 0, 0>>]
    /\ tnow = [t \in Threads |-> ZeroTime]
    /\ tgot = [t \in Threads |-> <<0, 0, 0, ZeroTime>>]
    /\ lastDone = <<>>
    /\ rq = [c \in Callers |-> NoRequest]

(* ---------------------------- environment ----------------------------- *)

\* time passes
Tick ==
    /\ now < StartTime + MaxTicks * TickStep
    /\ now' = now + TickStep
    /\ UNCHANGED <<rl, lastUpdate, pc, delay, first, remaining, when, ctxErr, wake,
                   parked, ret, calls, trace>>
    /\ UNCHANGED <<threadVars, reqVars>>

\* RateLimit.Update(total, used, remaining)
Update(total, used, rem) ==
    /\ rl' = UpdateBody(rl, total, used, rem, now)
    /\ lastUpdate' = <<total, used, rem, now>>

\* a caller of the package updates the tracker directly
UpdateCall ==
    /\ \E a \in UpdateArgs : Update(a[1], a[2], a[3])
    /\ UNCHANGED <<now, pc, delay, first, remaining, when, ctxErr, wake, parked, ret,
                   calls, trace>>
    /\ UNCHANGED <<threadVars, reqVars>>

\* the Call's context is cancelled, or its deadline passes; a select parked on
\* ctx.Done() is woken with that case
Cancel(c) ==
    /\ pc[c] # "done"
    /\ ctxErr[c] = Nil
    /\ \E e \in {Canceled, DeadlineExceeded} : ctxErr' = [ctxErr EXCEPT ![c] = e]
    /\ wake' = IF pc[c] = "sleep" /\ wake[c] = "none"
               THEN [wake EXCEPT ![c] = "ctx"] ELSE wake
    /\ UNCHANGED <<shared, pc, delay, first, remaining, when, parked, ret, calls,
                   trace>>
    /\ UNCHANGED <<threadVars, reqVars>>

\* the timer of sleep fires; a select parked on t.C is woken with that case
TimerFire(c) ==
    /\ pc[c] = "sleep"
    /\ wake[c] = "none"
    /\ wake' = [wake EXCEPT ![c] = "timer"]
    /\ UNCHANGED <<shared, pc, delay, first, remaining, when, ctxErr, parked, ret,
                   calls, trace>>
    /\ UNCHANGED <<threadVars, reqVars>>

(* ------------------------- RateLimit.Call / call ---------------------- *)

\* Call is entered: delay := minimumRateLimitDelay; first := true
CallStartShared(c) ==
    /\ pc[c] = "idle"
    /\ pc' = [pc EXCEPT ![c] = "get"]
    /\ \E o \in Callers \ {c} :
         /\ delay' = [delay EXCEPT ![c] = delay[o]]
         /\ first' = [first EXCEPT ![c] = first[o]]
    /\ UNCHANGED <<shared, remaining, when, ctxErr, wake, parked, ret, calls, trace>>
    /\ UNCHANGED <<threadVars, reqVars>>
CallStart(c) ==
    /\ pc[c] = "idle"
    /\ pc' = [pc EXCEPT ![c] = "get"]
    /\ delay' = [delay EXCEPT ![c] = minimumRateLimitDelay]
    /\ first' = [first EXCEPT ![c] = TRUE]
    /\ UNCHANGED <<shared, remaining, when, ctxErr, wake, parked, ret, calls, trace>>
    /\ UNCHANGED <<threadVars, reqVars>>

\* _, _, remaining, when := r.Get()
CallGetConsuming(c) ==
    /\ pc[c] = "get"
    /\ remaining' = [remaining EXCEPT ![c] = GetBody(rl)[3]]
    /\ when' = [when EXCEPT ![c] = GetBody(rl)[4]]
    /\ pc' = [pc EXCEPT ![c] = "check"]
    /\ rl' = SetRemaining(rl, rl.remaining - 1)
    /\ UNCHANGED <<now, lastUpdate, delay, first, ctxErr, wake, parked, ret, calls,
                   trace>>
    /\ UNCHANGED <<threadVars, reqVars>>
CallGet(c) ==
    /\ pc[c] = "get"
    /\ remaining' = [remaining EXCEPT ![c] = GetBody(rl)[3]]
    /\ when' = [when EXCEPT ![c] = GetBody(rl)[4]]
    /\ pc' = [pc EXCEPT ![c] = "check"]
    /\ UNCHANGED <<shared, delay, first, ctxErr, wake, parked, ret, calls, trace>>
    /\ UNCHANGED <<threadVars, reqVars>>

\* time.Now().Sub(when) < 10*time.Second
FreshWhenUnset(t, w) == w = ZeroTime \/ t - w < FreshnessSeconds
Fresh(t, w) == t - w < FreshnessSeconds

\* !first || time.Now().Sub(when) < 10*time.Second && remaining <= 1
NeedPauseRetryOnly(f, t, w, r) == ~f
NeedPauseZero(f, t, w, r) == ~f \/ (Fresh(t, w) /\ r <= 0)
NeedPauseStale(f, t, w, r) == ~f \/ r <= 1
NeedPauseSnapshotOnly(f, t, w, r) == Fresh(t, w) /\ r <= 1
NeedPause(f, t, w, r) == ~f \/ (Fresh(t, w) /\ r <= 1)

\* the cases of sleep's select that are ready when it is entered: ctx.Done() once
\* the context is done, t.C at once when the timer was reset to d <= 0
ReadyCases(err, d) ==
    (IF err # Nil THEN {"ctx"} ELSE {})
    \cup (IF IsNegative(d) \/ IsZero(d) THEN {"timer"} ELSE {})

\* the condition of the loop is evaluated (its right operand, with time.Now(),
\* only when first is true: the trace records what that operand saw); when the
\* condition holds, sleep(ctx, delay) is entered: the timer is reset and the
\* select takes a ready case or parks
CallCheck(c) ==
    /\ pc[c] = "check"
    /\ LET need == NeedPause(first[c], now, when[c], remaining[c])
           ready == ReadyCases(ctxErr[c], delay[c])
       IN  /\ trace' = [trace EXCEPT ![c] =
                           IF first[c]
                           THEN Append(@, <<"check", Fresh(now, when[c]),
                                            remaining[c] <= 1>>)
                           ELSE @]
           /\ IF ~need
              THEN /\ pc' = [pc EXCEPT ![c] = "work"]
                   /\ UNCHANGED <<wake, parked>>
              ELSE /\ pc' = [pc EXCEPT ![c] = "sleep"]
                   /\ parked' = [parked EXCEPT ![c] = (ready = {})]
                   /\ IF ready = {}
                      THEN wake' = [wake EXCEPT ![c] = "none"]
                      ELSE \E w \in ready : wake' = [wake EXCEPT ![c] = w]
    /\ UNCHANGED <<shared, delay, first, remaining, when, ctxErr, ret, calls>>
    /\ UNCHANGED <<threadVars, reqVars>>

\* sleep returns: ctx.Err() when woken by the context, and call returns it;
\* nil when woken by the timer, and call doubles delay and goes on to f
SleepReturnIgnoreErr(c) ==
    /\ pc[c] = "sleep"
    /\ wake[c] # "none"
    /\ pc' = [pc EXCEPT ![c] = "work"]
    /\ delay' = [delay EXCEPT ![c] = Double(@)]
    /\ trace' = [trace EXCEPT ![c] = Append(@, <<"pause", delay[c]>>)]
    /\ wake' = [wake EXCEPT ![c] = "none"]
    /\ UNCHANGED <<shared, first, remaining, when, ctxErr, parked, ret, calls>>
    /\ UNCHANGED <<threadVars, reqVars>>
SleepReturn(c) ==
    /\ pc[c] = "sleep"
    /\ wake[c] # "none"
    /\ IF wake[c] = "ctx"
       THEN /\ pc' = [pc EXCEPT ![c] = "done"]
            /\ ret' = [ret EXCEPT ![c] = ctxErr[c]]
            /\ trace' = [trace EXCEPT ![c] = Append(@, <<"interrupted", delay[c]>>)]
            /\ delay' = delay
       ELSE /\ pc' = [pc EXCEPT ![c] = "work"]
            /\ delay' = [delay EXCEPT ![c] = Double(@)]
            /\ trace' = [trace EXCEPT ![c] = Append(@, <<"pause", delay[c]>>)]
            /\ ret' = ret
    /\ wake' = [wake EXCEPT ![c] = "none"]
    /\ UNCHANGED <<shared, first, remaining, when, ctxErr, parked, calls>>
    /\ UNCHANGED <<threadVars, reqVars>>

\* err := f() is entered
WorkInvokeCtxChecked(c) ==
    /\ pc[c] = "work"
    /\ IF ctxErr[c] # Nil
       THEN /\ pc' = [pc EXCEPT ![c] = "done"]
            /\ ret' = [ret EXCEPT ![c] = ctxErr[c]]
            /\ UNCHANGED <<calls, trace>>
       ELSE /\ pc' = [pc EXCEPT ![c] = "inwork"]
            /\ calls' = [calls EXCEPT ![c] = @ + 1]
            /\ trace' = [trace EXCEPT ![c] = Append(@, <<"call">>)]
            /\ ret' = ret
    /\ UNCHANGED <<shared, delay, first, remaining, when, ctxErr, wake, parked>>
    /\ UNCHANGED <<threadVars, reqVars>>
WorkInvokeTwice(c) ==
    /\ pc[c] = "work"
    /\ pc' = [pc EXCEPT ![c] = "inwork"]
    /\ calls' = [calls EXCEPT ![c] = @ + 2]
    /\ trace' = [trace EXCEPT ![c] = @ \o << <<"call">>, <<"call">> >>]
    /\ UNCHANGED <<shared, delay, first, remaining, when, ctxErr, wake, parked, ret>>
    /\ UNCHANGED <<threadVars, reqVars>>
WorkInvoke(c) ==
    /\ pc[c] = "work"
    /\ pc' = [pc EXCEPT ![c] = "inwork"]
    /\ calls' = [calls EXCEPT ![c] = @ + 1]
    /\ trace' = [trace EXCEPT ![c] = Append(@, <<"call">>)]
    /\ UNCHANGED <<shared, delay, first, remaining, when, ctxErr, wake, parked, ret>>
    /\ UNCHANGED <<threadVars, reqVars>>

\* if !errors.Is(err, ErrTooManyRequests) { return err }
ShouldReturnNilOnly(err) == err = Nil
ShouldReturnAlways(err) == TRUE
ShouldReturnNever(err) == FALSE
ShouldReturn(err) == ~ErrorsIs(err, ErrTooManyRequests)

\* f returns, and a Call that retried reports so in the error it returns
WorkReturnAnnotated(c, maxCalls, responses) ==
    /\ pc[c] = "inwork"
    /\ \E resp \in responses :
         LET err == RequestError(resp)
             upd == RequestUpdate(resp)
         IN  /\ ~ShouldReturn(err) => calls[c] < maxCalls
             /\ IF upd = <<>>
                THEN UNCHANGED <<rl, lastUpdate>>
                ELSE Update(upd[1], upd[2], upd[3])
             /\ trace' = [trace EXCEPT ![c] = Append(@, <<"result", err>>)]
             /\ IF ShouldReturn(err)
                THEN /\ pc' = [pc EXCEPT ![c] = "done"]
                     /\ ret' = [ret EXCEPT ![c] =
                                   IF first[c] \/ err = Nil THEN err
                                   ELSE <<"after retries">> \o err]
                     /\ first' = first
                ELSE /\ pc' = [pc EXCEPT ![c] = "get"]
                     /\ first' = [first EXCEPT ![c] = FALSE]
                     /\ ret' = ret
    /\ UNCHANGED <<now, delay, remaining, when, ctxErr, wake, parked, calls>>
    /\ UNCHANGED <<threadVars, reqVars>>

\* f returns: the request executor has updated the tracker if it had a response
\* and a RateLimit, and call returns the error or sets first := false and loops.
\* The work script is bounded: f is retried at most maxCalls - 1 times.
WorkReturn(c, maxCalls, responses) ==
    /\ pc[c] = "inwork"
    /\ \E resp \in responses :
         LET err == RequestError(resp)
             upd == RequestUpdate(resp)
         IN  /\ ~ShouldReturn(err) => calls[c] < maxCalls
             /\ IF upd = <<>>
                THEN UNCHANGED <<rl, lastUpdate>>
                ELSE Update(upd[1], upd[2], upd[3])
             /\ trace' = [trace EXCEPT ![c] = Append(@, <<"result", err>>)]
             /\ IF ShouldReturn(err)
                THEN /\ pc' = [pc EXCEPT ![c] = "done"]
                     /\ ret' = [ret EXCEPT ![c] = err]
                     /\ first' = first
                ELSE /\ pc' = [pc EXCEPT ![c] = "get"]
                     /\ first' = [first EXCEPT ![c] = FALSE]
                     /\ ret' = ret
    /\ UNCHANGED <<now, delay, remaining, when, ctxErr, wake, parked, calls>>
    /\ UNCHANGED <<threadVars, reqVars>>

\* one step of the Call c
CallStep(c, maxCalls, responses) ==
    \/ CallStart(c)
    \/ CallGet(c)
    \/ CallCheck(c)
    \/ SleepReturn(c)
    \/ WorkInvoke(c)
    \/ WorkReturn(c, maxCalls, responses)

(* --------------------------- specifications --------------------------- *)

\* one Call, with the tracker updated by its own work and by other clients,
\* the clock advancing and the context free to be cancelled at any moment
Next ==
    \/ CallStep("c1", MaxCalls, Responses)
    \/ TimerFire("c1")
    \/ Cancel("c1")
    \/ UpdateCall
    \/ Tick

Spec == Init /\ [][Next]_vars

\* the tracker is set before the Call, as TestRateLimit_Call sets it
HarnessUpdate ==
    /\ pc["c1"] = "idle"
    /\ \E a \in UpdateArgs : Update(a[1], a[2], a[3])
    /\ UNCHANGED <<now, pc, delay, first, remaining, when, ctxErr, wake, parked, ret,
                   calls, trace>>
    /\ UNCHANGED <<threadVars, reqVars>>

\* one Call driven as TestRateLimit_Call drives it, with a long script of quota
\* errors and a context that is never cancelled
NextDeep ==
    \/ HarnessUpdate
    \/ CallStep("c1", DeepCalls, ScriptResponses)
    \/ TimerFire("c1")
    \/ Tick

SpecDeep == Init /\ [][NextDeep]_vars

\* what the work of a Call meets when the tracker is fed by its own requests: a
\* response accepted or rejected for quota, or a function of the caller's that
\* wraps the rejection
LiveResponses ==
    {r \in Responses : \/ /\ r.kind = "http"
                          /\ r.rl
                          /\ r.body = "ok"
                          /\ r.status \in {StatusOK, StatusTooManyRequests}
                       \/ r.kind = "custom" /\ r.err = ErrWrapped}

\* one Call whose context may be cancelled at any moment, the tracker updated
\* by the Call's own requests
NextLive ==
    \/ CallStep("c1", MaxCalls, LiveResponses)
    \/ TimerFire("c1")
    \/ Cancel("c1")
    \/ Tick

\* that Call when the scheduler runs it, every invocation of f returns and every
\* timer fires
LiveSpec ==
    /\ Init
    /\ [][NextLive]_vars
    /\ WF_vars(CallGet("c1") \/ CallCheck("c1") \/ SleepReturn("c1")
                \/ WorkInvoke("c1"))
    /\ WF_vars(WorkReturn("c1", MaxCalls, LiveResponses))
    /\ WF_vars(TimerFire("c1"))

\* what the work of concurrent Calls meets: a client with the RateLimit
\* configured gets a response, accepted or rejected for quota
ConcResponses == {r \in LiveResponses : r.kind = "http"}

\* several Calls share the tracker, which the request executor updates after
\* each attempt
NextConc ==
    \/ \E c \in Callers :
          \/ CallStep(c, ConcCalls, ConcResponses)
          \/ TimerFire(c)
    \/ Tick

SpecConc == Init /\ [][NextConc]_vars

\* what the work of either of two Calls meets: the scripted results of the test,
\* or a response, accepted or rejected for quota, that feeds the tracker
PairResponses == ScriptResponses \cup ConcResponses

\* two Calls on one tracker, their contexts never cancelled, each with a work
\* sequence of its own
NextPair ==
    \/ \E c \in Callers :
          \/ CallStep(c, ConcCalls, PairResponses)
          \/ TimerFire(c)
    \/ Tick

SpecPair == Init /\ [][NextPair]_vars

(* --------------------- request, statement by statement ---------------- *)

\* request is entered as the f of the Call's attempt: response, err :=
\* client.Do(r), and err is returned at once when it is not nil.  The work
\* script is bounded as in WorkReturn.
RequestDo(c) ==
    /\ pc[c] = "inwork"
    /\ rq[c].attempt < calls[c]
    /\ \E resp \in RequestResponses :
         /\ ~ShouldReturn(RequestError(resp)) => calls[c] < MaxCalls
         /\ rq' = [rq EXCEPT ![c] =
                      [attempt |-> calls[c], resp |-> resp, entry |-> rl,
                       updates |-> 0,
                       at |-> IF resp.kind = "doerr" THEN "return" ELSE "feed",
                       err |-> IF resp.kind = "doerr" THEN RequestError(resp)
                               ELSE Nil]]
    /\ UNCHANGED <<shared, threadVars, callVars>>

\* if rl != nil { total, used, remaining from the headers; rl.Update(...) }
RequestFeed(c) ==
    /\ rq[c].at = "feed"
    /\ LET upd == RequestUpdate(rq[c].resp)
       IN  IF upd = <<>>
           THEN /\ UNCHANGED <<rl, lastUpdate>>
                /\ rq' = [rq EXCEPT ![c].at = "classify"]
           ELSE /\ Update(upd[1], upd[2], upd[3])
                /\ rq' = [rq EXCEPT ![c].at = "classify", ![c].updates = @ + 1]
    /\ UNCHANGED <<now, threadVars, callVars>>

\* the status code is classified, or the body read and decoded
RequestClassify(c) ==
    /\ rq[c].at = "classify"
    /\ rq' = [rq EXCEPT ![c].at = "return", ![c].err = RequestError(rq[c].resp)]
    /\ UNCHANGED <<shared, threadVars, callVars>>

\* request returns err to call, which returns it or loops
RequestReturn(c) ==
    /\ rq[c].at = "return"
    /\ rq[c].attempt = calls[c]
    /\ WorkReturn(c, MaxCalls, {[kind |-> "custom", err |-> rq[c].err]})

\* one Call whose f is request, on a client of its own
NextReq ==
    \/ CallStart("c1")
    \/ CallGet("c1")
    \/ CallCheck("c1")
    \/ SleepReturn("c1")
    \/ WorkInvoke("c1")
    \/ RequestDo("c1")
    \/ RequestFeed("c1")
    \/ RequestClassify("c1")
    \/ RequestReturn("c1")
    \/ TimerFire("c1")
    \/ Tick

SpecReq == Init /\ [][NextReq]_vars

(* ------------- Update and Get, statement by statement ----------------- *)

\* r.mu.Lock() returns once no thread holds the mutex
CanLockAlways(m) == TRUE
CanLock(m) == m = "free"

\* a thread calls Update(total, used, remaining)
UpdateEnter(t) ==
    /\ tpc[t] = "idle"
    /\ \E a \in UpdateArgs : targs' = [targs EXCEPT ![t] = a]
    /\ tpc' = [tpc EXCEPT ![t] = "u_lock"]
    /\ UNCHANGED <<rl, now, lastUpdate, mu, tnow, tgot, lastDone>>
    /\ UNCHANGED <<callVars, reqVars>>

\* r.mu.Lock()
UpdateLock(t) ==
    /\ tpc[t] = "u_lock"
    /\ CanLock(mu)
    /\ mu' = t
    /\ tpc' = [tpc EXCEPT ![t] = "u_total"]
    /\ UNCHANGED <<rl, now, lastUpdate, targs, tnow, tgot, lastDone>>
    /\ UNCHANGED <<callVars, reqVars>>

\* r.total = total
UpdateTotal(t) ==
    /\ tpc[t] = "u_total"
    /\ rl' = SetTotal(rl, targs[t][1])
    /\ tpc' = [tpc EXCEPT ![t] = "u_used"]
    /\ UNCHANGED <<now, lastUpdate, mu, targs, tnow, tgot, lastDone>>
    /\ UNCHANGED <<callVars, reqVars>>

\* r.used = used
UpdateUsed(t) ==
    /\ tpc[t] = "u_used"
    /\ rl' = SetUsed(rl, targs[t][2])
    /\ tpc' = [tpc EXCEPT ![t] = "u_remaining"]
    /\ UNCHANGED <<now, lastUpdate, mu, targs, tnow, tgot, lastDone>>
    /\ UNCHANGED <<callVars, reqVars>>

\* r.remaining = remaining
UpdateRemaining(t) ==
    /\ tpc[t] = "u_remaining"
    /\ rl' = SetRemaining(rl, targs[t][3])
    /\ tpc' = [tpc EXCEPT ![t] = "u_updated"]
    /\ UNCHANGED <<now, lastUpdate, mu, targs, tnow, tgot, lastDone>>
    /\ UNCHANGED <<callVars, reqVars>>

\* r.updated = time.Now()
UpdateUpdated(t) ==
    /\ tpc[t] = "u_updated"
    /\ rl' = SetUpdated(rl, now)
    /\ tnow' = [tnow EXCEPT ![t] = now]
    /\ lastUpdate' = <<targs[t][1], targs[t][2], targs[t][3], now>>
    /\ tpc' = [tpc EXCEPT ![t] = "u_unlock"]
    /\ UNCHANGED <<now, mu, targs, tgot, lastDone>>
    /\ UNCHANGED <<callVars, reqVars>>

\* the deferred r.mu.Unlock(), and Update returns: its locals are gone
UpdateUnlock(t) ==
    /\ tpc[t] = "u_unlock"
    /\ mu' = "free"
    /\ lastDone' = <<targs[t][1], targs[t][2], targs[t][3], tnow[t]>>
    /\ tpc' = [tpc EXCEPT ![t] = "idle"]
    /\ targs' = [targs EXCEPT ![t] = <<0, 0, 0>>]
    /\ tnow' = [tnow EXCEPT ![t] = ZeroTime]
    /\ UNCHANGED <<rl, now, lastUpdate, tgot>>
    /\ UNCHANGED <<callVars, reqVars>>

\* a thread calls Get(): its named results are zero
GetEnter(t) ==
    /\ tpc[t] = "idle"
    /\ tpc' = [tpc EXCEPT ![t] = "g_lock"]
    /\ UNCHANGED <<rl, now, lastUpdate, mu, targs, tnow, tgot, lastDone>>
    /\ UNCHANGED <<callVars, reqVars>>

\* r.mu.Lock()
GetLock(t) ==
    /\ tpc[t] = "g_lock"
    /\ CanLock(mu)
    /\ mu' = t
    /\ tpc' = [tpc EXCEPT ![t] = "g_total"]
    /\ UNCHANGED <<rl, now, lastUpdate, targs, tnow, tgot, lastDone>>
    /\ UNCHANGED <<callVars, reqVars>>

\* total = r.total
GetTotal(t) ==
    /\ tpc[t] = "g_total"
    /\ tgot' = [tgot EXCEPT ![t][1] = rl.total]
    /\ tpc' = [tpc EXCEPT ![t] = "g_used"]
    /\ UNCHANGED <<rl, now, lastUpdate, mu, targs, tnow, lastDone>>
    /\ UNCHANGED <<callVars, reqVars>>

\* used = r.used
GetUsed(t) ==
    /\ tpc[t] = "g_used"
    /\ tgot' = [tgot EXCEPT ![t][2] = rl.used]
    /\ tpc' = [tpc EXCEPT ![t] = "g_remaining"]
    /\ UNCHANGED <<rl, now, lastUpdate, mu, targs, tnow, lastDone>>
    /\ UNCHANGED <<callVars, reqVars>>

\* remaining = r.remaining
GetRemaining(t) ==
    /\ tpc[t] = "g_remaining"
    /\ tgot' = [tgot EXCEPT ![t][3] = rl.remaining]
    /\ tpc' = [tpc EXCEPT ![t] = "g_updated"]
    /\ UNCHANGED <<rl, now, lastUpdate, mu, targs, tnow, lastDone>>
    /\ UNCHANGED <<callVars, reqVars>>

\* updated = r.updated
GetUpdated(t) ==
    /\ tpc[t] = "g_updated"
    /\ tgot' = [tgot EXCEPT ![t][4] = rl.updated]
    /\ tpc' = [tpc EXCEPT ![t] = "g_unlock"]
    /\ UNCHANGED <<rl, now, lastUpdate, mu, targs, tnow, lastDone>>
    /\ UNCHANGED <<callVars, reqVars>>

\* return of the tuple read, and the deferred r.mu.Unlock()
GetUnlock(t) ==
    /\ tpc[t] = "g_unlock"
    /\ mu' = "free"
    /\ tpc' = [tpc EXCEPT ![t] = "idle"]
    /\ tgot' = [tgot EXCEPT ![t] = <<0, 0, 0, ZeroTime>>]
    /\ UNCHANGED <<rl, now, lastUpdate, targs, tnow, lastDone>>
    /\ UNCHANGED <<callVars, reqVars>>

\* threads calling Update and Get concurrently while time passes
NextQS ==
    \/ \E t \in Threads :
          \/ UpdateEnter(t)
          \/ UpdateLock(t)
          \/ UpdateTotal(t)
          \/ UpdateUsed(t)
          \/ UpdateRemaining(t)
          \/ UpdateUpdated(t)
          \/ UpdateUnlock(t)
          \/ GetEnter(t)
          \/ GetLock(t)
          \/ GetTotal(t)
          \/ GetUsed(t)
          \/ GetRemaining(t)
          \/ GetUpdated(t)
          \/ GetUnlock(t)
    \/ Tick

SpecQS == Init /\ [][NextQS]_vars

(* ------------------------ reading a Call's trace ---------------------- *)

IsEvent(e, kind) == e[1] = kind

\* the errors f returned to the Call, in order
Results(c) == SelectSeq(trace[c], LAMBDA e : IsEvent(e, "result"))

\* the pauses the Call completed, in order
Pauses(c) == SelectSeq(trace[c], LAMBDA e : IsEvent(e, "pause"))

\* the pauses the context cut short
Interrupted(c) == SelectSeq(trace[c], LAMBDA e : IsEvent(e, "interrupted"))

\* the sentinel itself or an error that wraps it: what errors.Is matches
MatchesSentinel(err) ==
    \E i \in 1..Len(err) : SubSeq(err, i, Len(err)) = ErrTooManyRequests

\* how many of the results matched the sentinel
QuotaResults(c) == Len(SelectSeq(Results(c), LAMBDA e : MatchesSentinel(e[2])))

RECURSIVE SumDelays(_)
SumDelays(events) ==
    IF events = <<>> THEN FromNat(0, LimbsWide)
    ELSE AddWrap(SignExtend(events[1][2], LimbsWide), SumDelays(Tail(events)))

\* the total accumulated delay of the Call: the exact sum of the durations it
\* slept for, each as sleep was handed it
Slept(c) == SumDelays(Pauses(c))

\* what the first evaluation of the loop condition saw
FirstCheck(c) == trace[c][1]

Checked(c) == trace[c] # <<>> /\ IsEvent(FirstCheck(c), "check")

\* the Call has returned what its one and only invocation of f returned
ReturnedFirstResult(c) ==
    /\ pc[c] = "done"
    /\ calls[c] = 1
    /\ Len(Results(c)) = 1
    /\ ret[c] = Results(c)[1][2]

(* -------------------------------- C1 ---------------------------------- *)

\* C1 as stated: the first result that is not identical to the sentinel ends the
\* Call, which returns it unchanged and never invokes f again.
C1_AsStated ==
    \A c \in Callers : \A i \in 1..Len(trace[c]) :
        (IsEvent(trace[c][i], "result") /\ trace[c][i][2] # ErrTooManyRequests)
        => /\ i = Len(trace[c])
           /\ pc[c] = "done"
           /\ ret[c] = trace[c][i][2]
           /\ calls[c] = Len(Results(c))

\* C1, amended: the first result that errors.Is does not match to the sentinel
\* (nil, or an error that neither is the sentinel nor wraps it) ends the Call,
\* which returns it unchanged after no further invocation of f; a first-attempt
\* non-quota error is returned after exactly one invocation.  A result that is
\* or wraps the sentinel never ends the Call.
C1_FirstNonQuotaResultReturned ==
    \A c \in Callers : \A i \in 1..Len(trace[c]) :
        IsEvent(trace[c][i], "result")
        => IF MatchesSentinel(trace[c][i][2])
           THEN pc[c] # "done" \/ i < Len(trace[c])
           ELSE /\ i = Len(trace[c])
                /\ pc[c] = "done"
                /\ ret[c] = trace[c][i][2]
                /\ calls[c] = Len(Results(c))
                /\ \A j \in 1..Len(Results(c)) - 1 : MatchesSentinel(Results(c)[j][2])

\* a Call that retried a wrapped sentinel and then returned an error of the same
\* text as the sentinel but another identity
C1_Witness ==
    /\ pc["c1"] = "done"
    /\ calls["c1"] = 2
    /\ Len(Results("c1")) = 2
    /\ Results("c1")[1][2] = ErrWrapped
    /\ ret["c1"] = ErrLookAlike

(* -------------------------------- C2 ---------------------------------- *)

\* C2: while no result has matched the sentinel, a Call whose first evaluation
\* of the condition saw remaining > 1 or a snapshot at least 10 seconds old never
\* enters sleep, and its accumulated delay is zero, whatever total and used are.
C2_NoPauseWhenAmpleOrStale ==
    \A c \in Callers :
        (Checked(c) /\ ~(FirstCheck(c)[2] /\ FirstCheck(c)[3]) /\ QuotaResults(c) = 0)
        => /\ pc[c] # "sleep"
           /\ Pauses(c) = <<>>
           /\ Interrupted(c) = <<>>
           /\ IsZero(Slept(c))

\* a stale snapshot with nothing remaining: f ran at once and returned an error
C2_Witness ==
    /\ ReturnedFirstResult("c1")
    /\ FirstCheck("c1") = <<"check", FALSE, TRUE>>
    /\ rl.used = 12
    /\ ret["c1"] = ErrUnauthorized

(* -------------------------------- C3 ---------------------------------- *)

\* C3: a Call whose first evaluation of the condition saw a fresh snapshot with
\* remaining <= 1, and whose f returned a non-quota result on its first
\* invocation, paused exactly once, for exactly minimumRateLimitDelay, and the
\* pause completed before the single invocation of f.
C3_OnePreventivePause ==
    \A c \in Callers :
        (ReturnedFirstResult(c) /\ FirstCheck(c) = <<"check", TRUE, TRUE>>)
        => trace[c] = << <<"check", TRUE, TRUE>>,
                         <<"pause", minimumRateLimitDelay>>,
                         <<"call">>,
                         <<"result", ret[c]>> >>

\* the case remaining = 1, fresh
C3_Witness ==
    /\ ReturnedFirstResult("c1")
    /\ FirstCheck("c1") = <<"check", TRUE, TRUE>>
    /\ remaining["c1"] = 1
    /\ ret["c1"] = Nil

(* -------------------------------- C4 ---------------------------------- *)

RECURSIVE GeometricSum(_)
\* (2^k - 1) * minimumRateLimitDelay, exactly
GeometricSum(k) ==
    IF k = 0 THEN FromNat(0, LimbsWide)
    ELSE AddWrap(MulWrap(GeometricSum(k - 1), 2),
                 SignExtend(minimumRateLimitDelay, LimbsWide))

\* the Call returned a result of f and no pause of it was cut short
ReturnedResult(c) ==
    /\ pc[c] = "done"
    /\ Interrupted(c) = <<>>
    /\ Len(Results(c)) = calls[c]

\* C4: when f returned the sentinel exactly N times and then a non-quota
\* result, with no cancellation, the total accumulated delay is
\* (2^N - 1) * minimumRateLimitDelay when the first check saw no need for a
\* preventive pause, and (2^(N+1) - 1) * minimumRateLimitDelay when it saw a
\* fresh snapshot with remaining <= 1.
C4_TotalDelay ==
    \A c \in Callers :
        ReturnedResult(c)
        => Slept(c)
           = GeometricSum(QuotaResults(c)
                          + (IF FirstCheck(c) = <<"check", TRUE, TRUE>> THEN 1 ELSE 0))

(* -------------------------------- C5 ---------------------------------- *)

\* the select of sleep is parked and nothing has woken it yet
InPause(c) == pc[c] = "sleep" /\ wake[c] = "none"

\* C5: when the context is done while the Call is in a pause (or already was
\* when the pause began), the Call's next step returns the context's error
\* unchanged, f is invoked no further, and the Call stays returned.
C5_CancelledPauseReturnsCtxErr ==
    [][\A c \in Callers :
         /\ (InPause(c) /\ ctxErr[c] = Nil /\ ctxErr'[c] # Nil)
            => (pc'[c] = "sleep" /\ wake'[c] = "ctx" /\ calls'[c] = calls[c])
         /\ (pc[c] = "sleep" /\ wake[c] = "ctx")
            => /\ calls'[c] = calls[c]
               /\ \/ pc'[c] = "sleep" /\ wake'[c] = "ctx"
                  \/ pc'[c] = "done" /\ ret'[c] = ctxErr[c]
                     /\ ret'[c] \in {Canceled, DeadlineExceeded}
         /\ pc[c] = "done"
            => (pc'[c] = "done" /\ ret'[c] = ret[c] /\ calls'[c] = calls[c])
      ]_vars

\* a retry pause that had parked was cut short by the deadline
C5_Witness ==
    /\ pc["c1"] = "done"
    /\ parked["c1"]
    /\ ret["c1"] = DeadlineExceeded
    /\ calls["c1"] = 1
    /\ trace["c1"][Len(trace["c1"])] = <<"interrupted", Double(minimumRateLimitDelay)>>

(* -------------------------------- C8 ---------------------------------- *)

\* C8: Call never returns the sentinel (nor an error wrapping it): it returns
\* nil or a non-quota error that f produced last, or the context's error after
\* an interrupted pause; and every result matching the sentinel is followed, in
\* the same Call, by a pause and then another invocation of f, or by the return
\* of the context's error.
C8_NeverReturnsSentinel ==
    \A c \in Callers :
        LET t == trace[c]
            n == Len(t)
        IN  /\ pc[c] = "done"
               => /\ ~MatchesSentinel(ret[c])
                  /\ \/ IsEvent(t[n], "result") /\ ret[c] = t[n][2]
                     \/ /\ IsEvent(t[n], "interrupted")
                        /\ ret[c] = ctxErr[c]
                        /\ ret[c] \in {Canceled, DeadlineExceeded}
            /\ \A i \in 1..n :
                 (IsEvent(t[i], "result") /\ MatchesSentinel(t[i][2]))
                 => IF i = n THEN pc[c] \in {"get", "check", "sleep"}
                    ELSE \/ IsEvent(t[i + 1], "interrupted") /\ i + 1 = n
                                                            /\ pc[c] = "done"
                         \/ /\ IsEvent(t[i + 1], "pause")
                            /\ IF i + 1 = n THEN pc[c] = "work"
                               ELSE IsEvent(t[i + 2], "call")

\* a Call that met the sentinel, paused, and was then told Unauthorized
C8_Witness ==
    /\ pc["c1"] = "done"
    /\ Len(Results("c1")) = 2
    /\ Results("c1")[1][2] = ErrTooManyRequests
    /\ Len(Pauses("c1")) = 1
    /\ ret["c1"] = ErrUnauthorized

(* -------------------------------- C6 ---------------------------------- *)

\* the tuple of the snapshot that construction leaves
InitialTuple == GetBody(NewRateLimit)

\* some Update is between its Lock and its return
UpdateInProgress ==
    \E t \in Threads :
        tpc[t] \in {"u_total", "u_used", "u_remaining", "u_updated", "u_unlock"}

\* C6: a Get that follows an Update with no Update in between returns exactly
\* the total, used and remaining that Update was handed, whatever integers they
\* are, and the time of that Update; nothing of an earlier snapshot is left.
C6_GetReturnsLastUpdate ==
    \A t \in Threads :
        (tpc[t] = "g_unlock" /\ ~UpdateInProgress /\ lastDone # <<>>)
        => tgot[t] = lastDone

\* a Get about to return the negative, inconsistent triple that replaced an
\* earlier snapshot, written at a later time than the construction
C6_Witness ==
    /\ tpc["t2"] = "g_unlock"
    /\ lastDone = <<-1, 12, -1, StartTime + TickStep>>
    /\ tgot["t2"] = lastDone
    /\ tpc["t1"] = "u_lock"

(* -------------------------------- C7 ---------------------------------- *)

\* the tuple of the latest Update in the order of their time.Now() statements,
\* which is the order in which they held the mutex
Latest == IF lastUpdate = <<>> THEN InitialTuple ELSE lastUpdate

\* C7: under any interleaving of Updates and Gets, the tuple a Get returns is
\* the one written by a single Update, the latest in mutex order when the Get
\* read, or the initial all-zero tuple when there was none: no Get returns
\* fields of two Updates, and every Get is consistent with the one order of
\* the Updates.  While an Update holds the mutex no other thread is inside
\* Update or Get.
C7_GetIsAtomic ==
    /\ \A t \in Threads : tpc[t] = "g_unlock" => tgot[t] = Latest
    /\ \A t, u \in Threads :
         (t # u /\ tpc[t] \notin {"idle", "u_lock", "g_lock"})
         => tpc[u] \in {"idle", "u_lock", "g_lock"}

\* a Get about to return one Update's tuple while two other threads wait to Update
C7_Witness ==
    /\ tpc["t3"] = "g_unlock"
    /\ tgot["t3"] = <<10, 10, 0, StartTime>>
    /\ tpc["t1"] = "u_lock"
    /\ tpc["t2"] = "u_lock"
    /\ targs["t1"] # targs["t2"]

(* -------------------------------- C9 ---------------------------------- *)

\* C9: when the Call is scheduled, every invocation of f returns and every
\* timer fires, a Call whose f returns a non-quota result after finitely many
\* quota errors, or whose context is cancelled, returns; and a Call returns
\* only on a result of f that does not match the sentinel or on the context's
\* error in a pause, so that a result matching the sentinel always leads back
\* to the head of the loop, however many came before it: there is no retry limit.
C9_ReturnsOnlyAndEventually ==
    /\ (pc["c1"] # "idle") ~> (pc["c1"] = "done")
    /\ [][/\ (pc["c1"] # "done" /\ pc'["c1"] = "done")
             => \/ pc["c1"] = "inwork" /\ ~MatchesSentinel(ret'["c1"])
                \/ pc["c1"] = "sleep" /\ wake["c1"] = "ctx"
          /\ (pc["c1"] = "inwork" /\ Len(Results("c1")') > Len(Results("c1"))
                /\ MatchesSentinel(Results("c1")'[Len(Results("c1")')][2]))
             => (pc'["c1"] = "get" /\ ~first'["c1"])
       ]_vars

\* a Call that returned nil once the script of quota errors ran out
C9_Witness ==
    /\ pc["c1"] = "done"
    /\ calls["c1"] = MaxCalls
    /\ QuotaResults("c1") = MaxCalls - 1
    /\ ret["c1"] = Nil

(* -------------------------------- C10 --------------------------------- *)

\* the shared snapshot, as it is now, calls for a preventive pause
SnapshotLow == Fresh(now, rl.updated) /\ rl.remaining <= 1

\* C10 as stated: no Call invokes f on its first attempt, without a pause before
\* it, at a moment when the shared snapshot is fresh and has remaining <= 1.
C10_AsStated ==
    [][\A c \in Callers :
         (pc[c] = "work" /\ pc'[c] = "inwork" /\ first[c] /\ Pauses(c) = <<>>)
         => ~SnapshotLow
      ]_vars

\* C10, amended: no Call invokes f on its first attempt, without a pause before
\* it, when the snapshot that Call itself read, at the time it evaluated the
\* condition, was fresh and had remaining <= 1; what other Calls write to the
\* shared snapshot between that read and the attempt does not count.
C10_ThrottleOnOwnRead ==
    \A c \in Callers :
        (Checked(c) /\ FirstCheck(c) = <<"check", TRUE, TRUE>> /\ Len(trace[c]) >= 2)
        => /\ trace[c][2] = <<"pause", minimumRateLimitDelay>>
           /\ Len(trace[c]) >= 3 => trace[c][3] = <<"call">>

\* c2's request left remaining = 1; c1 read that while fresh, paused, and is in f
C10_Witness ==
    /\ pc["c2"] = "done"
    /\ rl = [total |-> 10, used |-> 6, remaining |-> 1, updated |-> StartTime]
    /\ pc["c1"] = "inwork"
    /\ FirstCheck("c1") = <<"check", TRUE, TRUE>>
    /\ Len(Pauses("c1")) = 1
    /\ now = StartTime + TickStep

(* -------------------------------- C11 --------------------------------- *)

RECURSIVE ExactPause(_)
\* minimumRateLimitDelay * 2^(k-1), exactly
ExactPause(k) ==
    IF k = 1 THEN SignExtend(minimumRateLimitDelay, LimbsWide)
    ELSE MulWrap(ExactPause(k - 1), 2)

\* the durations sleep was handed by the Call, in order: those of the pauses
\* that completed or were cut short, and that of a pause in progress
Handed(c) ==
    LET ended == SelectSeq(trace[c],
                           LAMBDA e : IsEvent(e, "pause") \/ IsEvent(e, "interrupted"))
    IN  IF pc[c] = "sleep" THEN Append(ended, <<"pause", delay[c]>>) ELSE ended

\* C11: the k-th pause of a Call lasts exactly minimumRateLimitDelay * 2^(k-1):
\* it is strictly positive and, for k > 1, exactly twice the pause before it,
\* however many quota errors there were; the 64-bit delay never wraps.
C11_PauseDoubles ==
    \A c \in Callers : \A k \in 1..Len(Handed(c)) :
        LET d == Handed(c)[k][2]
        IN  /\ ~IsNegative(d)
            /\ ~IsZero(d)
            /\ SignExtend(d, LimbsWide) = ExactPause(k)
            /\ k > 1 => SignExtend(d, LimbsWide)
                        = MulWrap(SignExtend(Handed(c)[k - 1][2], LimbsWide), 2)

(* -------------------------------- C12 --------------------------------- *)

\* the last event of the Call's trace
LastEvent(c) == trace[c][Len(trace[c])]

\* C12: in every iteration after a result that matched the sentinel the Call
\* enters sleep before it invokes f, whatever the snapshot it read and whatever
\* the shared snapshot has become since the failed attempt: the condition leads
\* to sleep and never straight to f, and f is entered again only after a pause
\* that came after that result.
C12_RetryAlwaysPauses ==
    [][\A c \in Callers :
         /\ (pc[c] = "check" /\ ~first[c] /\ pc'[c] # "check") => pc'[c] = "sleep"
         /\ (pc[c] = "work" /\ pc'[c] = "inwork" /\ QuotaResults(c) > 0)
            => /\ IsEvent(LastEvent(c), "pause")
               /\ IsEvent(trace[c][Len(trace[c]) - 1], "result")
               /\ Len(Pauses(c)) >= QuotaResults(c)
      ]_vars

\* a retry pause in progress although the rejected request itself left a fresh
\* snapshot with ample remaining quota, after a first attempt on a stale one
C12_Witness ==
    /\ pc["c1"] = "sleep"
    /\ ~first["c1"]
    /\ FirstCheck("c1") = <<"check", FALSE, TRUE>>
    /\ remaining["c1"] = 4
    /\ Fresh(now, when["c1"])
    /\ rl.remaining = 4
    /\ LastEvent("c1") = <<"result", ErrTooManyRequests>>

(* -------------------------------- C13 --------------------------------- *)

\* the invocations of f, in order
Invocations(c) == SelectSeq(trace[c], LAMBDA e : IsEvent(e, "call"))

\* the event e may directly follow the event p in the trace of a Call
MayFollow(p, e) ==
    CASE IsEvent(e, "check") -> FALSE
      [] IsEvent(e, "pause") \/ IsEvent(e, "interrupted") ->
            \/ p = <<"check", TRUE, TRUE>>
            \/ IsEvent(p, "result") /\ MatchesSentinel(p[2])
      [] IsEvent(e, "call") ->
            \/ IsEvent(p, "check") /\ p # <<"check", TRUE, TRUE>>
            \/ IsEvent(p, "pause")
      [] IsEvent(e, "result") -> IsEvent(p, "call")
      [] OTHER -> FALSE

\* C13: the trace of a Call is START -> [PAUSE] -> ATTEMPT -> (PAUSE -> ATTEMPT)*
\* -> END: it begins with the first evaluation of the condition; f is invoked
\* once in every iteration; between two invocations of f lie the result of the
\* first, which matched the sentinel, and exactly one pause; no pause is in
\* progress while f runs; and a Call that ended with a result of f invoked f
\* as often as results matched the sentinel, plus one.
C13_TraceIsStateMachine ==
    \A c \in Callers :
        LET t == trace[c]
            n == Len(t)
        IN  /\ n > 0 => IsEvent(t[1], "check")
            /\ \A i \in 2..n : MayFollow(t[i - 1], t[i])
            /\ calls[c] = Len(Invocations(c))
            /\ Len(Results(c)) = IF pc[c] = "inwork" THEN calls[c] - 1 ELSE calls[c]
            /\ Len(Pauses(c)) <= calls[c] + (IF pc[c] = "work" THEN 1 ELSE 0)
            /\ pc[c] = "inwork" <=> (n > 0 /\ IsEvent(t[n], "call"))
            /\ pc[c] = "inwork" => wake[c] = "none"
            /\ pc[c] = "sleep" => ~IsEvent(t[n], "call")
            /\ pc[c] = "done" => \/ IsEvent(t[n], "interrupted")
                                 \/ /\ IsEvent(t[n], "result")
                                    /\ ~MatchesSentinel(t[n][2])
                                    /\ calls[c] = QuotaResults(c) + 1

\* a preventive pause, then three attempts with a retry pause before the second
\* and the third
C13_Witness ==
    /\ pc["c1"] = "done"
    /\ Len(trace["c1"]) = 10
    /\ FirstCheck("c1") = <<"check", TRUE, TRUE>>
    /\ calls["c1"] = 3
    /\ Len(Pauses("c1")) = 3
    /\ ret["c1"] = Nil

(* -------------------------------- C14 --------------------------------- *)

\* minimumRateLimitDelay doubled once for each pause the Call itself completed
OwnBackoff(c) == MulWrap(minimumRateLimitDelay, 2 ^ Len(Pauses(c)))

\* C14: the delay and the retry flag of a Call are its own: delay is
\* minimumRateLimitDelay doubled once per pause this Call completed, first is
\* true until a result of this Call matched the sentinel, and the first pause
\* of every Call is exactly minimumRateLimitDelay, whatever the other Calls on
\* the same tracker have reached.
C14_BackoffIsPerCall ==
    \A c \in Callers :
        /\ pc[c] # "idle" =>
              /\ delay[c] = OwnBackoff(c)
              /\ first[c] <=> QuotaResults(c) = 0
        /\ Len(Handed(c)) >= 1 => Handed(c)[1][2] = minimumRateLimitDelay

\* c2 is in its first pause, a preventive one of minimumRateLimitDelay, while c1
\* has backed off and is in its second attempt
C14_Witness ==
    /\ pc["c2"] = "sleep"
    /\ first["c2"]
    /\ delay["c2"] = minimumRateLimitDelay
    /\ ~first["c1"]
    /\ pc["c1"] = "inwork"
    /\ delay["c1"] = Double(minimumRateLimitDelay)

(* -------------------------------- C15 --------------------------------- *)

\* the Call takes a step of the coordinator itself: anything but the return of f
CoordinatorStep(c) == pc[c] # "inwork" /\ pc'[c] # pc[c]

\* the thread takes a step of Get
GetStep(t) ==
    /\ tpc[t] \in {"g_lock", "g_total", "g_used", "g_remaining", "g_updated", "g_unlock"}
    /\ tpc'[t] # tpc[t]

\* C15: the snapshot changes only by an Update: the steps of Get and the
\* coordinator's own steps of a Call (entering, reading the snapshot, deciding,
\* pausing, doubling the delay, invoking f, returning the context's error)
\* leave total, used, remaining and updated as they are; a change seen during a
\* Call is one whole Update, made by f as it returns or by another caller while
\* the Call itself does not move.
C15_OnlyUpdateWrites ==
    [][/\ \A c \in Callers : CoordinatorStep(c) => rl' = rl
       /\ \A t \in Threads : GetStep(t) => rl' = rl
       /\ (rl' # rl /\ tpc' = tpc)
          => /\ lastUpdate' # <<>>
             /\ lastUpdate'[4] = now
             /\ rl' = UpdateBody(rl, lastUpdate'[1], lastUpdate'[2], lastUpdate'[3], now)
             /\ \/ pc' = pc /\ delay' = delay /\ first' = first /\ trace' = trace
                \/ \E c \in Callers :
                     /\ pc[c] = "inwork"
                     /\ Len(Results(c)') = Len(Results(c)) + 1
      ]_vars

\* the snapshot of a finished Call that retried once is the one its second
\* request wrote, later than and different from the one another caller had set
C15_Witness ==
    /\ pc["c1"] = "done"
    /\ calls["c1"] = 2
    /\ FirstCheck("c1") = <<"check", TRUE, TRUE>>
    /\ rl = [total |-> 10, used |-> 6, remaining |-> 4,
             updated |-> StartTime + TickStep]
    /\ lastUpdate = <<10, 6, 4, StartTime + TickStep>>

(* -------------------------------- C16 --------------------------------- *)

\* C16: the context is looked at only in sleep.  Whether or not the context is
\* done, a Call whose condition calls for no pause goes on to f, a Call in f
\* stays there until f returns and then returns f's result or loops, and a
\* Call returns the context's error only out of a pause that the context woke.
C16_CancelOnlyAtPauses ==
    [][\A c \in Callers :
         /\ (pc[c] = "check" /\ pc'[c] # "check"
               /\ first[c] /\ ~(Fresh(now, when[c]) /\ remaining[c] <= 1))
            => (pc'[c] = "work" /\ Handed(c)' = Handed(c))
         /\ (pc[c] \in {"idle", "get", "work", "inwork"} /\ ctxErr'[c] # ctxErr[c])
            => (pc'[c] = pc[c] /\ ret'[c] = ret[c] /\ trace'[c] = trace[c])
         /\ (pc[c] = "work" /\ pc'[c] # "work") => pc'[c] = "inwork"
         /\ (pc[c] = "inwork" /\ pc'[c] = "done")
            => (ret'[c] = LastEvent(c)'[2] /\ IsEvent(LastEvent(c)', "result"))
         /\ (pc[c] # "done" /\ pc'[c] = "done"
               /\ ret'[c] \in {Canceled, DeadlineExceeded})
            => (pc[c] = "sleep" /\ wake[c] = "ctx" /\ ctxErr[c] = ret'[c])
      ]_vars

\* the context is done, yet the Call, which needed no pause, returned what its
\* one invocation of f returned
C16_Witness ==
    /\ pc["c1"] = "done"
    /\ ctxErr["c1"] = Canceled
    /\ calls["c1"] = 1
    /\ Pauses("c1") = <<>>
    /\ Interrupted("c1") = <<>>
    /\ ret["c1"] = ErrUnknownStatus

(* -------------------------------- C18 --------------------------------- *)

\* the Call is in its first iteration and read the snapshot of a tracker that
\* no Update had touched
ReadUntouched(c) == pc[c] \notin {"idle", "get"} /\ first[c] /\ when[c] = ZeroTime

\* C18: a Call that read the snapshot of a never-updated tracker (remaining 0,
\* updated the zero time) finds it stale: its first evaluation of the condition
\* calls for no pause although remaining = 0 <= 1, sleep is not entered, and f
\* is invoked right after the condition.
C18_UntouchedTrackerIsStale ==
    \A c \in Callers :
        ReadUntouched(c)
        => /\ remaining[c] = 0
           /\ pc[c] \in {"check", "work", "inwork", "done"}
           /\ Handed(c) = <<>>
           /\ Checked(c) => FirstCheck(c) = <<"check", FALSE, TRUE>>
           /\ Len(trace[c]) >= 2 => trace[c][2] = <<"call">>

\* the tracker is still untouched after a Call whose request got no response
C18_Witness ==
    /\ pc["c1"] = "done"
    /\ ReadUntouched("c1")
    /\ rl = NewRateLimit
    /\ lastUpdate = <<>>
    /\ trace["c1"] = << <<"check", FALSE, TRUE>>, <<"call">>,
                        <<"result", ErrUnexpectedEOF>> >>
    /\ ret["c1"] = ErrUnexpectedEOF

(* -------------------------------- C19 --------------------------------- *)

\* the result of the Call's last invocation of f
LastResult(c) == Results(c)[Len(Results(c))][2]

\* C19: two Calls that were not cancelled and whose work sequences ended in the
\* same non-quota result returned the same value, which is that result, however
\* many quota errors and pauses came before it in either and whatever snapshot
\* either read.
C19_ReturnIgnoresRetries ==
    \A c, d \in Callers :
        (ReturnedResult(c) /\ ReturnedResult(d) /\ LastResult(c) = LastResult(d))
        => /\ ret[c] = ret[d]
           /\ ret[c] = LastResult(c)

\* c1 got the error on its first attempt, at once, on a fresh snapshot with
\* ample quota; c2 got it on a stale one after a quota error and a retry pause
C19_Witness ==
    /\ ReturnedResult("c1")
    /\ ReturnedResult("c2")
    /\ calls["c1"] = 1
    /\ Pauses("c1") = <<>>
    /\ FirstCheck("c1") = <<"check", TRUE, FALSE>>
    /\ calls["c2"] = 2
    /\ Len(Pauses("c2")) = 1
    /\ FirstCheck("c2") = <<"check", FALSE, TRUE>>
    /\ ret["c1"] = ErrUnexpectedEOF
    /\ ret["c2"] = ErrUnexpectedEOF

(* -------------------------------- C17 --------------------------------- *)

\* the run of request of the Call's latest attempt is about to return
Returning(c) == rq[c].at = "return"

\* the snapshot that an Update with the numbers of the response's headers leaves
FedSnapshot(resp, t) ==
    UpdateBody(NewRateLimit, Atoi(resp.total), Atoi(resp.used),
               Atoi(resp.remaining), t)

\* C17 as stated: whenever a RateLimit is configured, request has called Update
\* exactly once by the time it returns, whatever the outcome of the attempt, a
\* failure to obtain a response included.
C17_AsStated ==
    \A c \in Callers :
        (Returning(c) /\ rq[c].resp.rl) => rq[c].updates = 1

\* C17, amended: when a RateLimit is configured and the attempt obtained a
\* response, request calls Update exactly once, with the numbers of that
\* response's headers, whatever the status, and before it returns; the retry
\* that follows reads that snapshot.  When no response was obtained, or no
\* RateLimit is configured, request calls Update not at all and returns with
\* the snapshot as it found it.
C17_FeedsEveryResponse ==
    \A c \in Callers :
        LET q == rq[c]
            configured == q.resp.kind = "http" /\ q.resp.rl
        IN  /\ q.updates <= 1
            /\ Returning(c) =>
                  /\ q.updates = IF configured THEN 1 ELSE 0
                  /\ q.updates = 0 => rl = q.entry
                  /\ q.updates = 1 =>
                        /\ rl = FedSnapshot(q.resp, rl.updated)
                        /\ lastUpdate = GetBody(rl)
                        /\ rl.updated <= now
            /\ (pc[c] = "check" /\ ~first[c] /\ q.updates = 1) =>
                  /\ remaining[c] = Atoi(q.resp.remaining)
                  /\ when[c] = rl.updated

\* the second attempt was rejected for quota with a malformed Remaining header,
\* and the snapshot holds that response's numbers as request is about to return
C17_Witness ==
    /\ Returning("c1")
    /\ rq["c1"].attempt = 2
    /\ rq["c1"].resp.kind = "http"
    /\ rq["c1"].resp.status = StatusTooManyRequests
    /\ rq["c1"].resp.remaining = BadHeader
    /\ rq["c1"].updates = 1
    /\ rl.remaining = 0
    /\ rl.updated = StartTime + TickStep

====
